---- MODULE Spec2Model ----
(***************************************************************************)
(* The OpenCog AtomSpace node of cogn8n                                    *)
(* (packages/nodes-base/nodes/OpenCog/AtomSpace/AtomSpace.node.ts), under  *)
(* Spec, and its reasoning engine node (class ReasoningEngine), under      *)
(* SpecReasoning.                                                          *)
(*                                                                         *)
(* One behaviour is one call of a node's execute over a list of input      *)
(* items.  The node object holds no field besides its description: the     *)
(* only state the call builds is the output list returnData, one record    *)
(* per processed item.  Every handler answers from its parameters and      *)
(* from Math.random() / Date.now(); these are environment choices here.    *)
(*                                                                         *)
(* Numbers in [0,1] are counted in tenths for the AtomSpace node: 8        *)
(* stands for 0.8, 10 for 1.0.                                             *)
(***************************************************************************)
EXTENDS Integers, Sequences, FiniteSets, TLC

VARIABLES
    nItems,          \* items.length of the call
    continueOnFail,  \* what this.continueOnFail() answers during the call
    i,               \* the loop index of execute
    parameters,      \* the node parameters read for the items processed so far
    returnData,      \* the output list built by execute
    pc               \* "loop", "returned" (return [returnData]) or "thrown"

vars == <<nItems, continueOnFail, i, parameters, returnData, pc>>

----------------------------------------------------------------------------
(* Bounds of the model *)

\* longest input list
MaxItems == 2
\* largest maxResults parameter a caller passes
MaxCap == 2

----------------------------------------------------------------------------
(* Inputs *)

\* values of the atomName parameter
Names == {"Human", "Animal"}

\* values of the atomType parameter tried (a node kind and a link kind)
AtomTypeInputs == {"ConceptNode", "InheritanceLink"}

\* readings of Date.now() (the wall clock) during one call, in milliseconds
\* after its start
Instants == {0, 1}

\* the values Math.random() yields, in tenths; Math.random() < 1 always
RandVals == {0, 9}

TruthValue(s, c) == [strength |-> s, confidence |-> c]

\* what Math.random() yields for the two fields of a simulated truth value
RandTruths == {TruthValue(0, 9), TruthValue(9, 0)}

\* values of the truthValue parameter: the collection without `values`, a
\* pair in range, and a pair with strength 1.2 and confidence -0.2
TruthParams ==
    { [values |-> <<>>],
      [values |-> <<TruthValue(6, 7)>>],
      [values |-> <<TruthValue(12, -2)>>] }

\* values of the pattern parameter: kind keyword and children; the last one
\* gives InheritanceLink a single child
Patterns ==
    { [kind |-> "InheritanceLink", children |-> <<"$X", "Animal">>],
      [kind |-> "InheritanceLink", children |-> <<"$X", "$X">>],
      [kind |-> "InheritanceLink", children |-> <<"$X">>] }

\* values of the maxResults parameter: none, one, the largest
CapInputs == {0, 1, MaxCap}

Min(a, b) == IF a <= b THEN a ELSE b

----------------------------------------------------------------------------
(* The handlers *)

\* truthValueParam?.values || { strength: 0.8, confidence: 0.9 }
TruthOrDefault(truthValueParam) ==
    IF truthValueParam.values = <<>>
    THEN TruthValue(8, 9)
    ELSE truthValueParam.values[1]

\* Math.random().toString(36).substr(2, 9): 0 prints as "0", 0.9 as
\* "0.weeeeeeee..."
Base36Suffix(r) ==
    CASE r = 0 -> ""
      [] r = 9 -> "weeeeeeee"

\* `atom_${Date.now()}_${Math.random().toString(36).substr(2, 9)}`
NewAtomId(ms, r) == <<"atom", ms, Base36Suffix(r)>>

addAtom(atomType, atomName, truthValueParam, ms, r) ==
    [ operation  |-> "addAtom",
      atomId     |-> NewAtomId(ms, r),
      atomType   |-> atomType,
      atomName   |-> atomName,
      truthValue |-> TruthOrDefault(truthValueParam),
      success    |-> TRUE ]

\* the outgoing references of the atom an addAtom record reports: the handler
\* reads atomType, atomName and truthValue, and no outgoing list
OutgoingOf(json) == <<>>

\* Math.min(maxResults, Math.floor(Math.random() * 10) + 1)
NumResults(maxResults, r) == Min(maxResults, ((r * 10) \div 10) + 1)

\* Math.min(maxResults, Math.floor(Math.random() * 5) + 1)
NumMatches(maxResults, r) == Min(maxResults, ((r * 5) \div 10) + 1)

\* one entry of queryAtoms' results, for loop index k (from 0)
QueryEntry(k, atomName, tv) ==
    [ atomId     |-> <<"atom", k, atomName>>,
      atomType   |-> "ConceptNode",
      atomName   |-> <<atomName, k>>,
      truthValue |-> tv ]

\* tvs: the random truth values drawn, one per loop iteration
queryAtoms(atomName, maxResults, r, tvs) ==
    LET results == [k \in 1..NumResults(maxResults, r) |->
                        QueryEntry(k - 1, atomName, tvs[k])]
    IN  [ operation  |-> "queryAtoms",
          query      |-> atomName,
          results    |-> results,
          totalCount |-> Len(results) ]

\* a binding list that records $X once per pattern child instead of once per
\* variable
BindingsPerChild(k) == { <<"$X", <<"Entity", k>>>>, <<"$X", <<"Property", k>>>> }

\* the object literal { '$X': `Entity_${k}`, '$Y': `Property_${k}` }, one
\* pair per entry
Bindings(k) == { <<"$X", <<"Entity", k>>>>, <<"$Y", <<"Property", k>>>> }

\* one entry of patternMatch's matches, for loop index k (from 0)
MatchEntry(k, tv) ==
    [ matchId    |-> <<"match", k>>,
      bindings   |-> Bindings(k),
      truthValue |-> tv ]

patternMatch(pattern, maxResults, r, tvs) ==
    LET matches == [k \in 1..NumMatches(maxResults, r) |->
                        MatchEntry(k - 1, tvs[k])]
    IN  [ operation  |-> "patternMatch",
          pattern    |-> pattern,
          matches    |-> matches,
          matchCount |-> Len(matches) ]

getTruthValue(atomName, tv) ==
    [ operation  |-> "getTruthValue",
      atomName   |-> atomName,
      truthValue |-> tv,
      exists     |-> TRUE ]

setTruthValue(atomName, truthValueParam, tv) ==
    [ operation     |-> "setTruthValue",
      atomName      |-> atomName,
      oldTruthValue |-> tv,
      newTruthValue |-> TruthOrDefault(truthValueParam),
      success       |-> TRUE ]

----------------------------------------------------------------------------
(* execute *)

\* an output list that is assigned the new record instead of being pushed to
PushAssigning(params, json) ==
    /\ returnData' = <<[json |-> json, pairedItem |-> i]>>
    /\ parameters' = <<params>>
    /\ i' = i + 1
    /\ pc' = IF i + 1 < nItems THEN "loop" ELSE "returned"

\* i++ and the loop test: the next item, or return [returnData] after the
\* last one
NextItem ==
    /\ i' = i + 1
    /\ pc' = IF i + 1 < nItems THEN "loop" ELSE "returned"

\* returnData.push({ json, pairedItem: { item: i } }), then the next item;
\* params are the node parameters read for item i
Push(params, json) ==
    /\ returnData' = Append(returnData, [json |-> json, pairedItem |-> i])
    /\ parameters' = Append(parameters, params)
    /\ NextItem

\* the tolerant branch moves on to the next item without pushing a record
CatchSkipping(params, message) ==
    \/ /\ continueOnFail
       /\ NextItem
       /\ UNCHANGED <<parameters, returnData>>
    \/ /\ ~continueOnFail
       /\ pc' = "thrown"
       /\ UNCHANGED <<i, parameters, returnData>>

\* the catch block: an error record in tolerant mode, a rethrow otherwise
Catch(params, message) ==
    \/ /\ continueOnFail
       /\ Push(params, [error |-> message])
    \/ /\ ~continueOnFail
       /\ pc' = "thrown"
       /\ UNCHANGED <<i, parameters, returnData>>

InLoop == pc = "loop" /\ i < nItems

\* the sequences of n random truth values
TruthDraws(n) == [1..n -> RandTruths]

ExecAddAtom ==
    /\ InLoop
    /\ \E atomType \in AtomTypeInputs, atomName \in Names,
          truthValueParam \in TruthParams, ms \in Instants, r \in RandVals :
          Push([operation |-> "addAtom", atomType |-> atomType,
                atomName |-> atomName, truthValue |-> truthValueParam],
               addAtom(atomType, atomName, truthValueParam, ms, r))
    /\ UNCHANGED <<nItems, continueOnFail>>

ExecQueryAtoms ==
    /\ InLoop
    /\ \E atomName \in Names, maxResults \in CapInputs, r \in RandVals :
          \E tvs \in TruthDraws(NumResults(maxResults, r)) :
              Push([operation |-> "queryAtoms", atomName |-> atomName,
                    maxResults |-> maxResults],
                   queryAtoms(atomName, maxResults, r, tvs))
    /\ UNCHANGED <<nItems, continueOnFail>>

ExecPatternMatch ==
    /\ InLoop
    /\ \E pattern \in Patterns, maxResults \in CapInputs, r \in RandVals :
          \E tvs \in TruthDraws(NumMatches(maxResults, r)) :
              Push([operation |-> "patternMatch", pattern |-> pattern,
                    maxResults |-> maxResults],
                   patternMatch(pattern, maxResults, r, tvs))
    /\ UNCHANGED <<nItems, continueOnFail>>

ExecGetTruthValue ==
    /\ InLoop
    /\ \E atomName \in Names, tv \in RandTruths :
          Push([operation |-> "getTruthValue", atomName |-> atomName],
               getTruthValue(atomName, tv))
    /\ UNCHANGED <<nItems, continueOnFail>>

ExecSetTruthValue ==
    /\ InLoop
    /\ \E atomName \in Names, truthValueParam \in TruthParams, tv \in RandTruths :
          Push([operation |-> "setTruthValue", atomName |-> atomName,
                truthValue |-> truthValueParam],
               setTruthValue(atomName, truthValueParam, tv))
    /\ UNCHANGED <<nItems, continueOnFail>>

\* default: throw new Error(`Unknown operation: ${operation}`)
ExecUnknownOperation ==
    /\ InLoop
    /\ Catch([operation |-> "unknownOperation"],
             <<"Unknown operation", "unknownOperation">>)
    /\ UNCHANGED <<nItems, continueOnFail>>

\* a getNodeParameter call inside a handler throws
ExecHandlerThrows ==
    /\ InLoop
    /\ \E operation \in {"addAtom", "queryAtoms", "patternMatch",
                         "getTruthValue", "setTruthValue"} :
          Catch([operation |-> operation], <<"Could not get parameter">>)
    /\ UNCHANGED <<nItems, continueOnFail>>

\* getNodeParameter('operation', i) throws: the read is outside the try block
ExecOperationReadThrows ==
    /\ InLoop
    /\ pc' = "thrown"
    /\ UNCHANGED <<nItems, continueOnFail, i, parameters, returnData>>

\* return [returnData] for an empty input list: the loop body never runs
Return ==
    /\ pc = "loop"
    /\ i >= nItems
    /\ pc' = "returned"
    /\ UNCHANGED <<nItems, continueOnFail, i, parameters, returnData>>

Init ==
    /\ nItems \in 0..MaxItems
    /\ continueOnFail \in BOOLEAN
    /\ i = 0
    /\ parameters = <<>>
    /\ returnData = <<>>
    /\ pc = "loop"

Next ==
    \/ ExecAddAtom
    \/ ExecQueryAtoms
    \/ ExecPatternMatch
    \/ ExecGetTruthValue
    \/ ExecSetTruthValue
    \/ ExecUnknownOperation
    \/ ExecHandlerThrows
    \/ ExecOperationReadThrows
    \/ Return

Spec == Init /\ [][Next]_vars

----------------------------------------------------------------------------
(* The reasoning engine node: ReasoningEngine.execute runs the same loop over
   the input items as AtomSpace.execute, with the same try/catch, so its
   actions use Push, Catch and InLoop above. Its numbers in [0,1] are in
   hundredths: 70 stands for 0.7. Its timestamps are left out. *)

\* input items of one call of ReasoningEngine.execute
MaxReasoningItems == 1

\* values Math.random() returns
Randoms == {0, 90}

\* values Math.random() returns for a subgoal's confidence and a
\* hypothesis's plausibility
Confidences == {60, 80, 90}

\* values of the reasoningParams parameter: no values, every field given,
\* every number given as zero. A field is <<>> when absent, <<v>> when given.
ReasoningParamInputs ==
    { [values |-> <<>>],
      [values |-> <<[maxSteps |-> <<2>>, confidenceThreshold |-> <<80>>,
                     maxResults |-> <<2>>, useUncertainty |-> <<FALSE>>]>>],
      [values |-> <<[maxSteps |-> <<0>>, confidenceThreshold |-> <<0>>,
                     maxResults |-> <<0>>, useUncertainty |-> <<>>]>>] }

KnowledgeInputs == {"Socrates is a man"}

GoalInputs == {"Socrates is mortal"}

DomainInputs == {"birds"}

TimeWindowInputs == {"1h"}

\* field || fallback: an absent field and a zero are both replaced
OrDefault(field, fallback) ==
    IF field = <<>> \/ field[1] = 0 THEN fallback ELSE field[1]

\* paramsCollection?.values || {}
ValuesOf(paramsCollection) ==
    IF paramsCollection.values = <<>>
    THEN [maxSteps |-> <<>>, confidenceThreshold |-> <<>>,
          maxResults |-> <<>>, useUncertainty |-> <<>>]
    ELSE paramsCollection.values[1]

getReasoningParams(paramsCollection) ==
    LET params == ValuesOf(paramsCollection)
    IN  [maxSteps            |-> OrDefault(params.maxSteps, 10),
         confidenceThreshold |-> OrDefault(params.confidenceThreshold, 70),
         maxResults          |-> OrDefault(params.maxResults, 10),
         useUncertainty      |-> (params.useUncertainty = <<>>
                                  \/ params.useUncertainty[1] # FALSE)]

Max(a, b) == IF a >= b THEN a ELSE b

\* the number of times a loop "for (i = 0; i < Math.min(limit, cap); i++)" runs
LoopCount(limit, cap) == Max(0, Min(limit, cap))

\* the step the loop of performForwardChaining builds in iteration k
ForwardStep(k, params, r) ==
    [stepNumber |-> k,
     rule       |-> <<"Rule", k>>,
     premise    |-> <<"Premise", k>>,
     conclusion |-> <<"Conclusion", k>>,
     confidence |-> Max(params.confidenceThreshold, r)]

\* draws[k] is the Math.random() of iteration k
performForwardChainingRawConfidence(inputKnowledge, paramsCollection, draws) ==
    LET params == getReasoningParams(paramsCollection)
        n      == LoopCount(params.maxSteps, 5)
        steps  == [k \in 1..n |-> ForwardStep(k, params, draws[k])]
        valid  == SelectSeq(steps,
                      LAMBDA step : step.confidence >= params.confidenceThreshold)
        conclusions ==
            [c \in 1..Len(valid) |->
                [statement  |-> valid[c].conclusion,
                 confidence |-> draws[valid[c].stepNumber],
                 derivation |-> <<"Derived from", valid[c].premise,
                                  "using", valid[c].rule>>]]
    IN  [reasoningType    |-> "forwardChaining",
         inputKnowledge   |-> inputKnowledge,
         steps            |-> steps,
         conclusions      |-> conclusions,
         totalSteps       |-> Len(steps),
         validConclusions |-> Len(conclusions)]

performForwardChaining(inputKnowledge, paramsCollection, draws) ==
    LET params == getReasoningParams(paramsCollection)
        n      == LoopCount(params.maxSteps, 5)
        steps  == [k \in 1..n |-> ForwardStep(k, params, draws[k])]
        valid  == SelectSeq(steps,
                      LAMBDA step : step.confidence >= params.confidenceThreshold)
        conclusions ==
            [c \in 1..Len(valid) |->
                [statement  |-> valid[c].conclusion,
                 confidence |-> valid[c].confidence,
                 derivation |-> <<"Derived from", valid[c].premise,
                                  "using", valid[c].rule>>]]
    IN  [reasoningType    |-> "forwardChaining",
         inputKnowledge   |-> inputKnowledge,
         steps            |-> steps,
         conclusions      |-> conclusions,
         totalSteps       |-> Len(steps),
         validConclusions |-> Len(conclusions)]

\* the subgoal the loop of performBackwardChaining builds in iteration k from
\* its two Math.random() reads
Subgoal(k, draw) ==
    [goal       |-> <<"Subgoal", k>>,
     status     |-> IF draw[1] > 30 THEN "proven" ELSE "unproven",
     confidence |-> draw[2]]

\* confidences.reduce((acc, c) => Math.min(acc, c), 1)
RECURSIVE ReduceMin(_, _)
ReduceMin(confidences, acc) ==
    IF confidences = <<>> THEN acc
    ELSE ReduceMin(Tail(confidences), Min(acc, Head(confidences)))

performBackwardChaining(inputKnowledge, goalQuery, paramsCollection, draws) ==
    LET params   == getReasoningParams(paramsCollection)
        n        == LoopCount(params.maxSteps, 3)
        subgoals == [k \in 1..n |-> Subgoal(k, draws[k])]
        steps    == [k \in 1..n |->
                        [step       |-> k,
                         goal       |-> subgoals[k].goal,
                         proof      |-> "Proven by rule application",
                         confidence |-> subgoals[k].confidence,
                         status     |-> subgoals[k].status]]
        proven   == SelectSeq(steps, LAMBDA s : s.status = "proven")
        proofSteps ==
            [c \in 1..Len(proven) |->
                [step       |-> proven[c].step,
                 goal       |-> proven[c].goal,
                 proof      |-> proven[c].proof,
                 confidence |-> proven[c].confidence]]
        overallConfidence ==
            ReduceMin([c \in 1..Len(proven) |-> proven[c].confidence], 100)
    IN  [reasoningType     |-> "backwardChaining",
         inputKnowledge    |-> inputKnowledge,
         goalQuery         |-> goalQuery,
         subgoals          |-> subgoals,
         proofSteps        |-> proofSteps,
         goalProven        |-> (overallConfidence >= params.confidenceThreshold),
         overallConfidence |-> overallConfidence]

\* hypotheses.sort((a, b) => a.plausibility - b.plausibility)
SortByPlausibilityAscending(hypotheses) ==
    LET n      == Len(hypotheses)
        Pos(j) == Cardinality({k \in 1..n :
                      \/ hypotheses[k].plausibility < hypotheses[j].plausibility
                      \/ /\ hypotheses[k].plausibility = hypotheses[j].plausibility
                         /\ k < j}) + 1
    IN  [p \in 1..n |-> hypotheses[CHOOSE j \in 1..n : Pos(j) = p]]

\* hypotheses.sort((a, b) => b.plausibility - a.plausibility): Array.sort is
\* stable, so the place of element j is after every element of a greater
\* plausibility and every earlier element of the same plausibility
SortByPlausibility(hypotheses) ==
    LET n      == Len(hypotheses)
        Pos(j) == Cardinality({k \in 1..n :
                      \/ hypotheses[k].plausibility > hypotheses[j].plausibility
                      \/ /\ hypotheses[k].plausibility = hypotheses[j].plausibility
                         /\ k < j}) + 1
    IN  [p \in 1..n |-> hypotheses[CHOOSE j \in 1..n : Pos(j) = p]]

\* bestExplanation is hypotheses[0]: <<>> stands for undefined
performAbductiveReasoning(inputKnowledge, goalQuery, paramsCollection, draws) ==
    LET params == getReasoningParams(paramsCollection)
        n      == LoopCount(params.maxResults, 3)
        pushed == [k \in 1..n |->
                      [hypothesis         |-> <<"Hypothesis", k, goalQuery>>,
                       explanation        |-> "This hypothesis explains the observation through...",
                       plausibility       |-> draws[k],
                       supportingEvidence |-> <<<<"Evidence", k, "a">>,
                                                <<"Evidence", k, "b">>>>]]
        hypotheses == SortByPlausibility(pushed)
    IN  [reasoningType   |-> "abductiveReasoning",
         observation     |-> goalQuery,
         inputKnowledge  |-> inputKnowledge,
         hypotheses      |-> hypotheses,
         bestExplanation |-> IF hypotheses = <<>> THEN <<>>
                             ELSE <<hypotheses[1]>>]

\* values.reduce((acc, v) => acc + v, 0)
RECURSIVE ReduceSum(_)
ReduceSum(values) ==
    IF values = <<>> THEN 0 ELSE Head(values) + ReduceSum(Tail(values))

MeanUndivided(values) == ReduceSum(values)

\* values.reduce((acc, v) => acc + v, 0) / values.length
Mean(values) == ReduceSum(values) \div Len(values)

\* draws: similarity and confidence of the two analogies, confidence of the
\* prediction
performAnalogicalReasoning(sourceDomain, targetDomain, draws) ==
    LET analogies ==
            << [sourceElement |-> "Source_Element_1",
                targetElement |-> "Target_Element_1",
                similarity    |-> draws[1],
                mapping       |-> <<"property1", "property2">>,
                confidence    |-> draws[2]],
               [sourceElement |-> "Source_Element_2",
                targetElement |-> "Target_Element_2",
                similarity    |-> draws[3],
                mapping       |-> <<"property3", "property4">>,
                confidence    |-> draws[4]] >>
        predictions ==
            << [prediction |-> "Target domain will exhibit similar property X",
                confidence |-> draws[5],
                basedOn    |-> "Analogical mapping from source domain"] >>
    IN  [reasoningType        |-> "analogicalReasoning",
         sourceDomain         |-> sourceDomain,
         targetDomain         |-> targetDomain,
         analogies            |-> analogies,
         predictions          |-> predictions,
         structuralSimilarity |->
             Mean([a \in 1..Len(analogies) |-> analogies[a].similarity])]

\* totalUncertainty averaged over probability instead of 1 - probability
performProbabilisticReasoningUncomplemented(inputKnowledge, draws) ==
    LET probabilisticFacts ==
            << [fact |-> "Fact_A", probability |-> draws[1],
                dependencies |-> <<>>],
               [fact |-> "Fact_B", probability |-> draws[2],
                dependencies |-> <<"Fact_A">>] >>
        inferences ==
            << [statement |-> "Probabilistic_Conclusion_1",
                probability |-> draws[3],
                derivedFrom |-> <<"Fact_A", "Fact_B">>],
               [statement |-> "Probabilistic_Conclusion_2",
                probability |-> draws[4],
                derivedFrom |-> <<"Fact_B">>] >>
    IN  [reasoningType       |-> "probabilisticReasoning",
         inputKnowledge      |-> inputKnowledge,
         probabilisticFacts  |-> probabilisticFacts,
         inferences          |-> inferences,
         uncertaintyHandling |-> "Bayesian inference",
         uncertaintyMetrics  |->
             [totalUncertainty |->
                  Mean([f \in 1..Len(inferences) |-> inferences[f].probability]),
              avgConfidence |->
                  Mean([f \in 1..Len(inferences) |-> inferences[f].probability])]]

\* draws: probability of the two facts and of the two inferences
performProbabilisticReasoning(inputKnowledge, draws) ==
    LET probabilisticFacts ==
            << [fact |-> "Fact_A", probability |-> draws[1],
                dependencies |-> <<>>],
               [fact |-> "Fact_B", probability |-> draws[2],
                dependencies |-> <<"Fact_A">>] >>
        inferences ==
            << [statement |-> "Probabilistic_Conclusion_1",
                probability |-> draws[3],
                derivedFrom |-> <<"Fact_A", "Fact_B">>],
               [statement |-> "Probabilistic_Conclusion_2",
                probability |-> draws[4],
                derivedFrom |-> <<"Fact_B">>] >>
    IN  [reasoningType       |-> "probabilisticReasoning",
         inputKnowledge      |-> inputKnowledge,
         probabilisticFacts  |-> probabilisticFacts,
         inferences          |-> inferences,
         uncertaintyHandling |-> "Bayesian inference",
         uncertaintyMetrics  |->
             [totalUncertainty |->
                  Mean([f \in 1..Len(inferences) |-> 100 - inferences[f].probability]),
              avgConfidence |->
                  Mean([f \in 1..Len(inferences) |-> inferences[f].probability])]]

\* draws: the Math.random() of consistencyCheck and of the prediction
performTemporalReasoning(inputKnowledge, timeWindow, draws) ==
    [reasoningType     |-> "temporalReasoning",
     inputKnowledge    |-> inputKnowledge,
     timeWindow        |-> timeWindow,
     temporalFacts     |-> << [fact |-> "Event_A occurred", duration |-> "30 minutes"],
                              [fact |-> "Event_B occurred", duration |-> "ongoing"] >>,
     temporalRelations |-> << [event1 |-> "Event_A", event2 |-> "Event_B",
                               relation |-> "before", confidence |-> 95,
                               type |-> "temporal_precedence"] >>,
     predictions       |-> << [event |-> "Future_Event_C", confidence |-> draws[2]] >>,
     consistencyCheck  |-> [isConsistent |-> draws[1] > 20,
                            violations |-> <<>>, warnings |-> <<>>]]

\* the parameters a strategy reads before it computes: the ones its switch
\* case names, then reasoningParams
ExecForwardChaining ==
    /\ InLoop
    /\ \E inputKnowledge \in KnowledgeInputs,
          paramsCollection \in ReasoningParamInputs :
          \E draws \in [1..LoopCount(getReasoningParams(paramsCollection).maxSteps, 5)
                           -> Randoms] :
              Push([reasoningType |-> "forwardChaining",
                    reasoningParams |-> paramsCollection],
                   performForwardChaining(inputKnowledge, paramsCollection, draws))
    /\ UNCHANGED <<nItems, continueOnFail>>

ExecBackwardChaining ==
    /\ InLoop
    /\ \E inputKnowledge \in KnowledgeInputs, goalQuery \in GoalInputs,
          paramsCollection \in ReasoningParamInputs :
          \E draws \in [1..LoopCount(getReasoningParams(paramsCollection).maxSteps, 3)
                           -> Randoms \X Confidences] :
              Push([reasoningType |-> "backwardChaining",
                    reasoningParams |-> paramsCollection],
                   performBackwardChaining(inputKnowledge, goalQuery,
                                           paramsCollection, draws))
    /\ UNCHANGED <<nItems, continueOnFail>>

ExecAbductiveReasoning ==
    /\ InLoop
    /\ \E inputKnowledge \in KnowledgeInputs, goalQuery \in GoalInputs,
          paramsCollection \in ReasoningParamInputs :
          \E draws \in [1..LoopCount(getReasoningParams(paramsCollection).maxResults, 3)
                           -> Confidences] :
              Push([reasoningType |-> "abductiveReasoning",
                    reasoningParams |-> paramsCollection],
                   performAbductiveReasoning(inputKnowledge, goalQuery,
                                             paramsCollection, draws))
    /\ UNCHANGED <<nItems, continueOnFail>>

ExecAnalogicalReasoning ==
    /\ InLoop
    /\ \E sourceDomain \in DomainInputs, targetDomain \in DomainInputs,
          paramsCollection \in ReasoningParamInputs,
          draws \in [1..5 -> Randoms] :
          Push([reasoningType |-> "analogicalReasoning",
                reasoningParams |-> paramsCollection],
               performAnalogicalReasoning(sourceDomain, targetDomain, draws))
    /\ UNCHANGED <<nItems, continueOnFail>>

ExecProbabilisticReasoning ==
    /\ InLoop
    /\ \E inputKnowledge \in KnowledgeInputs,
          paramsCollection \in ReasoningParamInputs,
          draws \in [1..4 -> Randoms] :
          Push([reasoningType |-> "probabilisticReasoning",
                reasoningParams |-> paramsCollection],
               performProbabilisticReasoning(inputKnowledge, draws))
    /\ UNCHANGED <<nItems, continueOnFail>>

ExecTemporalReasoning ==
    /\ InLoop
    /\ \E inputKnowledge \in KnowledgeInputs, timeWindow \in TimeWindowInputs,
          paramsCollection \in ReasoningParamInputs,
          draws \in [1..2 -> Randoms] :
          Push([reasoningType |-> "temporalReasoning",
                reasoningParams |-> paramsCollection],
               performTemporalReasoning(inputKnowledge, timeWindow, draws))
    /\ UNCHANGED <<nItems, continueOnFail>>

\* the error message leaves the reasoning type out
ExecUnknownReasoningTypeUnnamed ==
    /\ InLoop
    /\ Catch([reasoningType |-> "unknownReasoning"],
             <<"Unknown reasoning type">>)
    /\ UNCHANGED <<nItems, continueOnFail>>

\* default: throw new Error(`Unknown reasoning type: ${reasoningType}`)
ExecUnknownReasoningType ==
    /\ InLoop
    /\ Catch([reasoningType |-> "unknownReasoning"],
             <<"Unknown reasoning type", "unknownReasoning">>)
    /\ UNCHANGED <<nItems, continueOnFail>>

\* a getNodeParameter call inside a strategy throws
ExecStrategyThrows ==
    /\ InLoop
    /\ \E reasoningType \in {"forwardChaining", "backwardChaining",
                             "abductiveReasoning", "analogicalReasoning",
                             "probabilisticReasoning", "temporalReasoning"} :
          Catch([reasoningType |-> reasoningType], <<"Could not get parameter">>)
    /\ UNCHANGED <<nItems, continueOnFail>>

\* getNodeParameter('reasoningType', i) throws: the read is outside the try
\* block
ExecReasoningTypeReadThrows ==
    /\ InLoop
    /\ pc' = "thrown"
    /\ UNCHANGED <<nItems, continueOnFail, i, parameters, returnData>>

\* return [returnData] for an empty input list: the loop body never runs
ReasoningReturn ==
    /\ pc = "loop"
    /\ i >= nItems
    /\ pc' = "returned"
    /\ UNCHANGED <<nItems, continueOnFail, i, parameters, returnData>>

ReasoningInit ==
    /\ nItems \in 0..MaxReasoningItems
    /\ continueOnFail \in BOOLEAN
    /\ i = 0
    /\ parameters = <<>>
    /\ returnData = <<>>
    /\ pc = "loop"

ReasoningNext ==
    \/ ExecForwardChaining
    \/ ExecBackwardChaining
    \/ ExecAbductiveReasoning
    \/ ExecAnalogicalReasoning
    \/ ExecProbabilisticReasoning
    \/ ExecTemporalReasoning
    \/ ExecUnknownReasoningType
    \/ ExecStrategyThrows
    \/ ExecReasoningTypeReadThrows
    \/ ReasoningReturn

SpecReasoning == ReasoningInit /\ [][ReasoningNext]_vars

\* execute is an async function run to completion by the event loop: a call
\* that can take a step eventually takes one
SpecReasoningFair == SpecReasoning /\ WF_vars(ReasoningNext)

----------------------------------------------------------------------------
(* The pattern miner node: PatternMiner.mineFrequentPatterns as a function of
   the parameters of one item and of the values Math.random() returns.
   parameters holds the item's parameters from the start, returnData receives
   the record execute pushes for the result. Numbers in [0,1] are in
   hundredths; the timestamp is left out. *)

\* values of the inputData parameter, as sequences of characters
InputDataInputs == {<<"a", ",", "b">>}

\* values of the patternConfig parameter: no values, some fields given, every
\* number given as zero. A field is <<>> when absent, <<v>> when given.
PatternConfigInputs ==
    { [values |-> <<>>],
      [values |-> <<[minSupport |-> <<50>>, minConfidence |-> <<>>,
                     windowSize |-> <<>>, maxPatternLength |-> <<2>>,
                     anomalyThreshold |-> <<>>, clusteringMethod |-> <<"kmeans">>]>>],
      [values |-> <<[minSupport |-> <<0>>, minConfidence |-> <<0>>,
                     windowSize |-> <<0>>, maxPatternLength |-> <<0>>,
                     anomalyThreshold |-> <<0>>, clusteringMethod |-> <<>>]>>] }

\* values Math.random() returns for the number of patterns: 5 or 6 patterns
CountDraws == {0, 10}

\* values Math.random() returns while one pattern is built: for its length,
\* for each of its items, for its support
PatternDraws ==
    { [length |-> 0,  item |-> 0,  support |-> 0],
      [length |-> 0,  item |-> 50, support |-> 50],
      [length |-> 50, item |-> 95, support |-> 90] }

\* Math.floor(r * n) for r in hundredths
FloorTimes(r, n) == (r * n) \div 100

\* configCollection?.values || {}
ConfigOf(configCollection) ==
    IF configCollection.values = <<>>
    THEN [minSupport |-> <<>>, minConfidence |-> <<>>, windowSize |-> <<>>,
          maxPatternLength |-> <<>>, anomalyThreshold |-> <<>>,
          clusteringMethod |-> <<>>]
    ELSE configCollection.values[1]

getPatternConfig(configCollection) ==
    LET config == ConfigOf(configCollection)
    IN  [minSupport       |-> OrDefault(config.minSupport, 30),
         minConfidence    |-> OrDefault(config.minConfidence, 70),
         windowSize       |-> OrDefault(config.windowSize, 5),
         maxPatternLength |-> OrDefault(config.maxPatternLength, 10),
         anomalyThreshold |-> OrDefault(config.anomalyThreshold, 95),
         clusteringMethod |-> IF \/ config.clusteringMethod = <<>>
                                 \/ config.clusteringMethod[1] = ""
                              THEN "hierarchical"
                              ELSE config.clusteringMethod[1]]

\* the pattern the loop of mineFrequentPatterns builds in iteration n (from 0)
MinedPattern(n, config, draw) ==
    LET patternLength == FloorTimes(draw.length, config.maxPatternLength) + 1
        support       == Max(config.minSupport, draw.support)
    IN  [patternId |-> <<"pattern", n>>,
         items     |-> [j \in 1..patternLength |->
                           <<"item", FloorTimes(draw.item, 20)>>],
         support   |-> support,
         frequency |-> support * 10,
         length    |-> patternLength]

\* patterns.sort((a, b) => a.support - b.support)
SortBySupportAscending(patterns) ==
    LET n      == Len(patterns)
        Pos(j) == Cardinality({k \in 1..n :
                      \/ patterns[k].support < patterns[j].support
                      \/ /\ patterns[k].support = patterns[j].support
                         /\ k < j}) + 1
    IN  [p \in 1..n |-> patterns[CHOOSE j \in 1..n : Pos(j) = p]]

\* patterns.sort((a, b) => b.support - a.support), a stable sort
SortBySupport(patterns) ==
    LET n      == Len(patterns)
        Pos(j) == Cardinality({k \in 1..n :
                      \/ patterns[k].support > patterns[j].support
                      \/ /\ patterns[k].support = patterns[j].support
                         /\ k < j}) + 1
    IN  [p \in 1..n |-> patterns[CHOOSE j \in 1..n : Pos(j) = p]]

\* count is the Math.random() behind numPatterns, draws[n] the ones of pattern n
mineFrequentPatterns(inputData, configCollection, count, draws) ==
    LET config      == getPatternConfig(configCollection)
        numPatterns == FloorTimes(count, 10) + 5
        pushed      == [n \in 1..numPatterns |->
                           MinedPattern(n - 1, config, draws[n])]
        patterns    == SortBySupport(pushed)
    IN  [miningType    |-> "frequentPatterns",
         inputSize     |-> Len(inputData),
         config        |-> [minSupport |-> config.minSupport],
         patterns      |-> patterns,
         totalPatterns |-> Len(patterns)]

\* case 'frequentPatterns' of PatternMiner.execute for the one item
ExecFrequentPatterns ==
    /\ InLoop
    /\ parameters[i + 1].miningType = "frequentPatterns"
    /\ \E count \in CountDraws :
          \E draws \in [1..(FloorTimes(count, 10) + 5) -> PatternDraws] :
              returnData' = Append(returnData,
                  [json |-> mineFrequentPatterns(parameters[i + 1].inputData,
                                                 parameters[i + 1].patternConfig,
                                                 count, draws),
                   pairedItem |-> i])
    /\ NextItem
    /\ UNCHANGED <<nItems, continueOnFail, parameters>>

MiningInit ==
    /\ nItems = 1
    /\ continueOnFail = FALSE
    /\ i = 0
    /\ parameters \in {<<[miningType |-> "frequentPatterns",
                          inputData |-> inputData,
                          patternConfig |-> configCollection]>> :
                          inputData \in InputDataInputs,
                          configCollection \in PatternConfigInputs}
    /\ returnData = <<>>
    /\ pc = "loop"

MiningNext == ExecFrequentPatterns

SpecMining == MiningInit /\ [][MiningNext]_vars

----------------------------------------------------------------------------
(* Reading the output list *)

Json(k) == returnData[k].json

\* record k is the result of a handler for operation op (not an error record)
IsOp(k, op) == "operation" \in DOMAIN Json(k) /\ Json(k).operation = op

Records == DOMAIN returnData

InUnit(x) == x >= 0 /\ x <= 10

ValidTruth(tv) == InUnit(tv.strength) /\ InUnit(tv.confidence)

\* the addAtom records for name n among the first k records
AddsOf(n, k) == {a \in 1..k : IsOp(a, "addAtom") /\ Json(a).atomName = n}

\* the records among the first k that give the atom named n a truth value:
\* its addAtom and every setTruthValue on it
WritesOf(n, k) ==
    {w \in 1..k : \/ IsOp(w, "addAtom") /\ Json(w).atomName = n
                  \/ IsOp(w, "setTruthValue") /\ Json(w).atomName = n}

Latest(S) == CHOOSE m \in S : \A x \in S : x <= m

\* the truth value record w wrote
Written(w) ==
    IF IsOp(w, "addAtom") THEN Json(w).truthValue ELSE Json(w).newTruthValue

\* the atoms reported as created so far, and the truth value each one holds:
\* the one given at addAtom, or by the latest setTruthValue on its name since
Atoms == {a \in Records : IsOp(a, "addAtom")}

TruthOfAtom(a) ==
    LET sets == {w \in Records : /\ w > a
                                 /\ IsOp(w, "setTruthValue")
                                 /\ Json(w).atomName = Json(a).atomName}
    IN  IF sets = {} THEN Json(a).truthValue ELSE Json(Latest(sets)).newTruthValue

Store == [a \in Atoms |-> [atomId |-> Json(a).atomId, truth |-> TruthOfAtom(a)]]

\* record k is the result of the strategy named t (not an error record)
IsStrategy(k, t) ==
    "reasoningType" \in DOMAIN Json(k) /\ Json(k).reasoningType = t

\* the value the caller of record k supplied for a field of reasoningParams:
\* the value given, zero included, and the field's declared default when the
\* caller gave none
Supplied(k, field, declared) ==
    LET collection == parameters[k].reasoningParams
    IN  IF collection.values = <<>> THEN declared
        ELSE IF collection.values[1][field] = <<>> THEN declared
        ELSE collection.values[1][field][1]

----------------------------------------------------------------------------
(* The claims *)

\* C1: getTruthValue(id) after a successful setTruthValue(id, t) with a valid
\* t, with no other setTruthValue on that atom in between, returns exactly t.
C1_GetReturnsWhatWasSet ==
    \A s \in Records : \A g \in Records :
        ( /\ s < g
          /\ IsOp(s, "setTruthValue")
          /\ Json(s).success
          /\ ValidTruth(Json(s).newTruthValue)
          /\ IsOp(g, "getTruthValue")
          /\ Json(g).exists
          /\ Json(g).atomName = Json(s).atomName
          /\ \A m \in Records :
                (s < m /\ m < g /\ IsOp(m, "setTruthValue"))
                    => Json(m).atomName # Json(s).atomName )
        => Json(g).truthValue = Json(s).newTruthValue

\* C2: setTruthValue returns as the old truth value the value the atom held
\* just before the call: the one given at addAtom or by the latest earlier
\* setTruthValue.
C2_SetReturnsPreviousTruth ==
    \A s \in Records :
        (IsOp(s, "setTruthValue") /\ WritesOf(Json(s).atomName, s - 1) # {})
        => Json(s).oldTruthValue
               = Written(Latest(WritesOf(Json(s).atomName, s - 1)))

\* the arity each link kind requires of its outgoing list
ArityOk(atomType, n) ==
    CASE atomType \in {"InheritanceLink", "SimilarityLink"} -> n = 2
      [] atomType = "EvaluationLink" -> n >= 2
      [] OTHER -> TRUE

\* C3: addAtom for a link kind whose outgoing list does not have the kind's
\* arity fails: no addAtom record reports such an atom as created.
C3_ArityEnforced ==
    \A a \in Records :
        (IsOp(a, "addAtom") /\ Json(a).success)
        => ArityOk(Json(a).atomType, Len(OutgoingOf(Json(a))))

\* C4: addAtom and setTruthValue with a strength or confidence outside [0,1]
\* fail and change nothing, so every truth value reported as stored has both
\* fields in [0,1].
C4_TruthValuesInRange ==
    \A w \in Records :
        /\ (IsOp(w, "addAtom") /\ Json(w).success)
               => ValidTruth(Json(w).truthValue)
        /\ (IsOp(w, "setTruthValue") /\ Json(w).success)
               => ValidTruth(Json(w).newTruthValue)

\* C5: getTruthValue and setTruthValue on an atom that was never added fail:
\* they report neither that the atom exists nor success.
C5_UnknownAtomNotFound ==
    \A k \in Records :
        /\ (IsOp(k, "getTruthValue") /\ AddsOf(Json(k).atomName, k - 1) = {})
               => ~Json(k).exists
        /\ (IsOp(k, "setTruthValue") /\ AddsOf(Json(k).atomName, k - 1) = {})
               => ~Json(k).success

\* the atom ids a queryAtoms record lists
ResultIds(q) == {Json(q).results[p].atomId : p \in DOMAIN Json(q).results}

\* C6: after addAtom of a node named n returned id a, queryAtoms(n) lists a
\* (when maxResults admits every atom of that name), lists only ids returned
\* by earlier addAtom calls with name n, in insertion order, and lists exactly
\* one id when exactly one atom named n was added.
C6_QueryFindsAddedAtoms ==
    \A q \in Records :
        (IsOp(q, "queryAtoms") /\ AddsOf(Json(q).query, q - 1) # {}) =>
            LET n     == Json(q).query
                adds  == AddsOf(n, q - 1)
                res   == Json(q).results
                cap   == parameters[q].maxResults
            IN  /\ cap >= Cardinality(adds)
                       => \A a \in adds : Json(a).atomId \in ResultIds(q)
                /\ \A p \in DOMAIN res :
                       \E a \in adds : Json(a).atomId = res[p].atomId
                /\ \A p1 \in DOMAIN res : \A p2 \in DOMAIN res :
                       p1 < p2 =>
                           \E a1 \in adds : \E a2 \in adds :
                               /\ a1 < a2
                               /\ Json(a1).atomId = res[p1].atomId
                               /\ Json(a2).atomId = res[p2].atomId
                /\ (Cardinality(adds) = 1 /\ cap >= 1) => Len(res) = 1

\* C7: no two successful addAtom calls return the same atom id.
C7_AtomIdsUnique ==
    \A a \in Atoms : \A b \in Atoms :
        a # b => Json(a).atomId # Json(b).atomId

ReadOnlyOps == {"queryAtoms", "patternMatch", "getTruthValue"}

\* the step processed one item with a handler for operation op
Handled(op) ==
    /\ Len(returnData') = Len(returnData) + 1
    /\ "operation" \in DOMAIN returnData'[Len(returnData')].json
    /\ returnData'[Len(returnData')].json.operation = op

Matching(pattern, q) ==
    {a \in 1..(q - 1) : IsOp(a, "addAtom") /\ Json(a).atomType = pattern.kind}

\* the p-th smallest element of a finite set of numbers
Nth(S, p) == CHOOSE x \in S : Cardinality({y \in S : y <= x}) = p

\* the atom a binding set gives variable v
BoundTo(bindings, v) == {b[2] : b \in {c \in bindings : c[1] = v}}

\* C10: patternMatch with maxResults = k returns at most k bindings, and when
\* at least k atoms match it returns exactly k: those of the first k matching
\* atoms in insertion order.
C10_CapSelectsFirstMatches ==
    \A q \in Records :
        IsOp(q, "patternMatch") =>
            LET k       == parameters[q].maxResults
                matches == Json(q).matches
                atoms   == Matching(Json(q).pattern, q)
            IN  /\ Len(matches) <= k
                /\ Cardinality(atoms) >= k =>
                       /\ Len(matches) = k
                       /\ \A p \in 1..k :
                              BoundTo(matches[p].bindings, "$X")
                                  = {Json(Nth(atoms, p)).atomId}

\* C11: matchPattern is deterministic: two patternMatch calls with the same
\* pattern and maxResults, with no addAtom or setTruthValue between them,
\* return identical results.
C11_PatternMatchDeterministic ==
    \A p \in Records : \A q \in Records :
        ( /\ p < q
          /\ IsOp(p, "patternMatch")
          /\ IsOp(q, "patternMatch")
          /\ parameters[p] = parameters[q]
          /\ \A m \in Records :
                (p < m /\ m < q) => ~(IsOp(m, "addAtom") \/ IsOp(m, "setTruthValue")) )
        => Json(p) = Json(q)

\* the pattern grammar: a known link kind with the number of children the
\* kind requires
WellFormedPattern(pattern) == ArityOk(pattern.kind, Len(pattern.children))

\* C12: matchPattern on a malformed pattern fails with InvalidPatternError and
\* returns no bindings: every patternMatch result is for a well-formed pattern.
C12_MalformedPatternRejected ==
    \A q \in Records :
        IsOp(q, "patternMatch") => WellFormedPattern(parameters[q].pattern)

\* C13: every conclusion forward chaining returns has a confidence at least
\* the confidenceThreshold the caller supplied, whatever maxSteps is.
C13_ConclusionsMeetThreshold ==
    \A k \in Records :
        IsStrategy(k, "forwardChaining") =>
            \A c \in DOMAIN Json(k).conclusions :
                Json(k).conclusions[c].confidence
                    >= Supplied(k, "confidenceThreshold", 70)

\* forward chaining with threshold 0.8 returned two conclusions
C13_Witness ==
    \E k \in Records :
        /\ IsStrategy(k, "forwardChaining")
        /\ Supplied(k, "confidenceThreshold", 70) = 80
        /\ Len(Json(k).conclusions) = 2

\* C14: forward chaining performs at most the maxSteps iterations the caller
\* supplied: steps is no longer than maxSteps, and totalSteps is its length.
C14_StepsWithinMaxSteps ==
    \A k \in Records :
        IsStrategy(k, "forwardChaining") =>
            /\ Len(Json(k).steps) <= Supplied(k, "maxSteps", 10)
            /\ Json(k).totalSteps = Len(Json(k).steps)

\* the confidences of the subgoals of record k whose status is proven
ProvenConfidences(k) ==
    {Json(k).subgoals[g].confidence :
        g \in {h \in DOMAIN Json(k).subgoals :
                  Json(k).subgoals[h].status = "proven"}}

\* overallConfidence is the minimum confidence over the proven subgoals
OverallIsMinimum(k) ==
    ProvenConfidences(k) # {} =>
        /\ Json(k).overallConfidence \in ProvenConfidences(k)
        /\ \A c \in ProvenConfidences(k) : Json(k).overallConfidence <= c

\* C15: in a backward chaining result overallConfidence is the minimum
\* confidence over the proven subgoals, and goalProven is true if and only if
\* overallConfidence is at least the confidenceThreshold the caller supplied;
\* three proven subgoals of confidences 0.9, 0.6, 0.8 under threshold 0.7 give
\* overallConfidence 0.6 and goalProven false.
C15_GoalProvenIffThresholdMet ==
    \A k \in Records :
        IsStrategy(k, "backwardChaining") =>
            /\ OverallIsMinimum(k)
            /\ Json(k).goalProven
                   <=> (Json(k).overallConfidence
                           >= Supplied(k, "confidenceThreshold", 70))
            /\ ( /\ Supplied(k, "confidenceThreshold", 70) = 70
                 /\ Len(Json(k).subgoals) = 3
                 /\ \A g \in 1..3 : Json(k).subgoals[g].status = "proven"
                 /\ [g \in 1..3 |-> Json(k).subgoals[g].confidence] = <<90, 60, 80>> )
               => (Json(k).overallConfidence = 60 /\ ~Json(k).goalProven)

\* C16: backward chaining reports the goal as proven only if all its subgoals
\* are proven: when goalProven is true no subgoal is unproven and at least
\* one subgoal is proven.
C16_GoalProvenOnlyIfAllProven ==
    \A k \in Records :
        (IsStrategy(k, "backwardChaining") /\ Json(k).goalProven) =>
            /\ \A g \in DOMAIN Json(k).subgoals :
                   Json(k).subgoals[g].status # "unproven"
            /\ \E g \in DOMAIN Json(k).subgoals :
                   Json(k).subgoals[g].status = "proven"

\* C17: the hypotheses abductive reasoning returns are sorted by
\* non-increasing plausibility.
C17_HypothesesSortedByPlausibility ==
    \A k \in Records :
        IsStrategy(k, "abductiveReasoning") =>
            \A a \in DOMAIN Json(k).hypotheses :
                \A b \in DOMAIN Json(k).hypotheses :
                    a < b => Json(k).hypotheses[a].plausibility
                                 >= Json(k).hypotheses[b].plausibility

\* three hypotheses were generated in increasing order of plausibility and
\* returned with the last one generated first
C17_Witness ==
    \E k \in Records :
        /\ IsStrategy(k, "abductiveReasoning")
        /\ Len(Json(k).hypotheses) = 3
        /\ Json(k).hypotheses[1].hypothesis[2] = 3
        /\ Json(k).hypotheses[3].hypothesis[2] = 1
        /\ Json(k).hypotheses[1].plausibility > Json(k).hypotheses[3].plausibility

\* bestExplanation is one of the hypotheses and none has a greater plausibility
BestIsTopRanked(k) ==
    Json(k).hypotheses # <<>> =>
        /\ Json(k).bestExplanation # <<>>
        /\ \E h \in DOMAIN Json(k).hypotheses :
               Json(k).hypotheses[h] = Json(k).bestExplanation[1]
        /\ \A h \in DOMAIN Json(k).hypotheses :
               Json(k).hypotheses[h].plausibility
                   <= Json(k).bestExplanation[1].plausibility

\* C18: bestExplanation of abductive reasoning is the top-ranked hypothesis: a
\* member of a non-empty hypotheses list that none exceeds in plausibility;
\* and the list is no longer than the maxResults the caller supplied.
C18_BestExplanationWithinMaxResults ==
    \A k \in Records :
        IsStrategy(k, "abductiveReasoning") =>
            /\ BestIsTopRanked(k)
            /\ Len(Json(k).hypotheses) <= Supplied(k, "maxResults", 10)

\* C19: the analogies analogical reasoning returns are ordered by descending
\* similarity.
C19_AnalogiesSortedBySimilarity ==
    \A k \in Records :
        IsStrategy(k, "analogicalReasoning") =>
            \A a \in DOMAIN Json(k).analogies :
                \A b \in DOMAIN Json(k).analogies :
                    a < b => Json(k).analogies[a].similarity
                                 >= Json(k).analogies[b].similarity

\* the similarity values of the analogies of record k, in order
Similarities(k) ==
    [a \in DOMAIN Json(k).analogies |-> Json(k).analogies[a].similarity]

\* C20: structuralSimilarity of analogical reasoning is the arithmetic mean
\* of the similarity values of the analogies returned, hence within [0,1].
C20_StructuralSimilarityIsMean ==
    \A k \in Records :
        IsStrategy(k, "analogicalReasoning") =>
            /\ Json(k).structuralSimilarity * Len(Json(k).analogies)
                   = ReduceSum(Similarities(k))
            /\ Json(k).structuralSimilarity >= 0
            /\ Json(k).structuralSimilarity <= 100

\* analogies of similarity 0.9 and 0.0 gave structuralSimilarity 0.45
C20_Witness ==
    \E k \in Records :
        /\ IsStrategy(k, "analogicalReasoning")
        /\ Similarities(k) = <<90, 0>>
        /\ Json(k).structuralSimilarity = 45

\* the probabilities of the inferences of record k, in order
Probabilities(k) ==
    [f \in DOMAIN Json(k).inferences |-> Json(k).inferences[f].probability]

\* C21: probabilistic reasoning gives every inference a probability in [0,1];
\* totalUncertainty is the mean of 1 - probability over the inferences,
\* avgConfidence the mean probability, and the two add up to 1.
C21_UncertaintyComplementsConfidence ==
    \A k \in Records :
        IsStrategy(k, "probabilisticReasoning") =>
            LET n       == Len(Json(k).inferences)
                metrics == Json(k).uncertaintyMetrics
            IN  /\ \A f \in 1..n : /\ Probabilities(k)[f] >= 0
                                    /\ Probabilities(k)[f] <= 100
                /\ metrics.avgConfidence * n = ReduceSum(Probabilities(k))
                /\ metrics.totalUncertainty * n
                       = ReduceSum([f \in 1..n |-> 100 - Probabilities(k)[f]])
                /\ metrics.totalUncertainty + metrics.avgConfidence = 100

\* inferences of probability 0.9 and 0.0 gave avgConfidence 0.45 and
\* totalUncertainty 0.55
C21_Witness ==
    \E k \in Records :
        /\ IsStrategy(k, "probabilisticReasoning")
        /\ Probabilities(k) = <<90, 0>>
        /\ Json(k).uncertaintyMetrics.avgConfidence = 45
        /\ Json(k).uncertaintyMetrics.totalUncertainty = 55

\* relation names that cannot both hold between the same two events
Exclusive(r1, r2) ==
    {r1, r2} \in {{"before", "after"}, {"before", "during"}, {"after", "during"}}

\* two of the temporalRelations of record k contradict each other
HasContradiction(k) ==
    \E a \in DOMAIN Json(k).temporalRelations :
        \E b \in DOMAIN Json(k).temporalRelations :
            LET ra == Json(k).temporalRelations[a]
                rb == Json(k).temporalRelations[b]
            IN  \/ /\ ra.event1 = rb.event1
                   /\ ra.event2 = rb.event2
                   /\ Exclusive(ra.relation, rb.relation)
                \/ /\ ra.event1 = rb.event2
                   /\ ra.event2 = rb.event1
                   /\ ra.relation = rb.relation
                   /\ ra.relation \in {"before", "after"}

\* C22: in a temporal reasoning result isConsistent is false whenever two of
\* the temporalRelations between the same pair of events are mutually
\* exclusive, and it is false only if a contradiction was found, in which case
\* violations is not empty.
C22_InconsistentOnlyOnContradiction ==
    \A k \in Records :
        IsStrategy(k, "temporalReasoning") =>
            /\ HasContradiction(k) => ~Json(k).consistencyCheck.isConsistent
            /\ ~Json(k).consistencyCheck.isConsistent =>
                   /\ HasContradiction(k)
                   /\ Json(k).consistencyCheck.violations # <<>>

\* record k is an error record: json is { error: message }
IsError(k) == "error" \in DOMAIN Json(k)

\* C23: in tolerant mode a failure on one item does not prevent the later
\* items from being processed: execute never throws and returns a record for
\* every item; in strict mode the first failure makes execute throw, so a
\* returned list holds no error record and nothing is processed after a throw.
C23_TolerantContinuesStrictAborts ==
    /\ continueOnFail =>
           /\ pc # "thrown"
           /\ pc = "returned" => Len(returnData) = nItems
    /\ ~continueOnFail =>
           /\ \A k \in Records : ~IsError(k)
           /\ pc = "thrown" => Len(returnData) < nItems

\* the selector read for record k: operation or reasoningType
Selector(k) ==
    IF "operation" \in DOMAIN parameters[k]
    THEN parameters[k].operation
    ELSE parameters[k].reasoningType

Supported ==
    {"addAtom", "queryAtoms", "patternMatch", "getTruthValue", "setTruthValue",
     "forwardChaining", "backwardChaining", "abductiveReasoning",
     "analogicalReasoning", "probabilisticReasoning", "temporalReasoning"}

\* C24: an operation or reasoning type outside the supported set is rejected:
\* in tolerant mode the item's output is an error record whose message names
\* it and no handler result is produced; in strict mode execute throws, so no
\* record exists for it.
C24_UnknownSelectorRejected ==
    \A k \in Records :
        Selector(k) \notin Supported =>
            /\ continueOnFail
            /\ IsError(k)
            /\ DOMAIN Json(k) = {"error"}
            /\ Len(Json(k).error) = 2
            /\ Json(k).error[1] \in {"Unknown operation", "Unknown reasoning type"}
            /\ Json(k).error[2] = Selector(k)

\* an item with an unknown selector was answered by an error record
C24_Witness ==
    \E k \in Records : Selector(k) \notin Supported /\ IsError(k)

\* the loop of record k ran maxSteps times and left no qualifying result: no
\* conclusion for forward chaining, no proven goal for backward chaining
StoppedAtBound(k) ==
    \/ /\ IsStrategy(k, "forwardChaining")
       /\ Len(Json(k).steps) = Supplied(k, "maxSteps", 10)
       /\ Json(k).conclusions = <<>>
    \/ /\ IsStrategy(k, "backwardChaining")
       /\ Len(Json(k).subgoals) = Supplied(k, "maxSteps", 10)
       /\ ~Json(k).goalProven

\* C25: a strategy that stops because it reached maxSteps returns a result,
\* not an error, and the result carries an explicit bound-reached flag.
C25_BoundReachedFlagged ==
    \A k \in Records :
        StoppedAtBound(k) => "boundReached" \in DOMAIN Json(k)

\* execute has returned or thrown
Terminated == pc \in {"returned", "thrown"}

\* the loop of execute ran at most once per input item and the loop of each
\* strategy at most maxSteps / maxResults times
IterationsBounded ==
    /\ i <= nItems
    /\ Len(returnData) <= nItems
    /\ \A k \in Records :
           /\ IsStrategy(k, "forwardChaining") =>
                  Len(Json(k).steps) <= Supplied(k, "maxSteps", 10)
           /\ IsStrategy(k, "backwardChaining") =>
                  Len(Json(k).subgoals) <= Supplied(k, "maxSteps", 10)
           /\ IsStrategy(k, "abductiveReasoning") =>
                  Len(Json(k).hypotheses) <= Supplied(k, "maxResults", 10)

\* C26: execute and the strategies terminate without external cancellation,
\* after a number of loop iterations bounded by the number of input items and
\* by maxSteps / maxResults.
C26_TerminatesWithinBounds == <>Terminated /\ []IterationsBounded

\* execute terminates and its own loop runs at most once per input item
ExecuteTerminates == <>Terminated /\ [](i <= nItems /\ Len(returnData) <= nItems)

\* record k is the result of the mining type named t
IsMining(k, t) == "miningType" \in DOMAIN Json(k) /\ Json(k).miningType = t

\* the minSupport the caller of record k supplied: the value given, zero
\* included, and the declared default 0.3 when the caller gave none
SuppliedMinSupport(k) ==
    LET collection == parameters[k].patternConfig
    IN  IF collection.values = <<>> THEN 30
        ELSE IF collection.values[1].minSupport = <<>> THEN 30
        ELSE collection.values[1].minSupport[1]

\* C27: frequent-pattern mining returns its patterns sorted by support in
\* non-increasing order, each with a support at least the minSupport the
\* caller supplied.
C27_PatternsSortedAboveMinSupport ==
    \A k \in Records :
        IsMining(k, "frequentPatterns") =>
            /\ \A a \in DOMAIN Json(k).patterns :
                   \A b \in DOMAIN Json(k).patterns :
                       a < b => Json(k).patterns[a].support
                                    >= Json(k).patterns[b].support
            /\ \A a \in DOMAIN Json(k).patterns :
                   Json(k).patterns[a].support >= SuppliedMinSupport(k)

\* with minSupport 0.5 the pattern generated last came out first, above one
\* whose support was raised to 0.5
C27_Witness ==
    \E k \in Records :
        /\ IsMining(k, "frequentPatterns")
        /\ SuppliedMinSupport(k) = 50
        /\ Json(k).patterns[1].patternId[2] = Json(k).totalPatterns - 1
        /\ Json(k).patterns[1].support = 90
        /\ Json(k).patterns[Json(k).totalPatterns].support = 50

\* a parameter read inside the strategy of record k threw: the strategy was
\* selected and reasoningParams was never read
StrategyReadFailed(k) ==
    /\ "reasoningType" \in DOMAIN parameters[k]
    /\ parameters[k].reasoningType \in Supported
    /\ "reasoningParams" \notin DOMAIN parameters[k]

\* C28: with continueOnFail true, when reading a node parameter throws for an
\* item, the read of reasoningType included, ReasoningEngine.execute does not
\* throw: the item gets exactly one record, which has an error property, and
\* the output list is returned.
C28_ParameterReadFailureTolerated ==
    continueOnFail =>
        /\ pc # "thrown"
        /\ \A k \in Records :
               StrategyReadFailed(k) =>
                   (IsError(k) /\ returnData[k].pairedItem = k - 1)

\* C29: the strategies run with maxSteps, confidenceThreshold and maxResults
\* as the caller supplied them, zero included, and with the defaults 10, 0.7
\* and 10 where the caller supplied none: the loops run min(maxSteps, 5),
\* min(maxSteps, 3) and min(maxResults, 3) times and the goal is proven
\* against that threshold.
C29_SuppliedParametersUsedUnchanged ==
    \A k \in Records :
        /\ IsStrategy(k, "forwardChaining") =>
               Json(k).totalSteps = LoopCount(Supplied(k, "maxSteps", 10), 5)
        /\ IsStrategy(k, "backwardChaining") =>
               /\ Len(Json(k).subgoals)
                      = LoopCount(Supplied(k, "maxSteps", 10), 3)
               /\ Json(k).goalProven
                      = (Json(k).overallConfidence
                            >= Supplied(k, "confidenceThreshold", 70))
        /\ IsStrategy(k, "abductiveReasoning") =>
               Len(Json(k).hypotheses)
                   = LoopCount(Supplied(k, "maxResults", 10), 3)

\* C30: with continueOnFail true the output list holds one record per item
\* processed so far, in input order, the record at position i paired with
\* item i whether the item succeeded or failed inside its handler; the list
\* execute returns has one record per input item.
C30_OneRecordPerItem ==
    continueOnFail =>
        /\ Len(returnData) = i
        /\ \A k \in Records : returnData[k].pairedItem = k - 1
        /\ \A k \in Records : \/ IsError(k)
                              \/ "operation" \in DOMAIN Json(k)
                              \/ "reasoningType" \in DOMAIN Json(k)
        /\ pc = "returned" => Len(returnData) = nItems

\* a call in tolerant mode returned two records: an error record for the
\* first item, a handler's result for the second
C30_Witness ==
    /\ continueOnFail
    /\ pc = "returned"
    /\ Len(returnData) = 2
    /\ IsError(1)
    /\ IsOp(2, "addAtom")

====
